---------------------------- MODULE Spec2Model ----------------------------
(***************************************************************************)
(* Lab-report OCR pipeline of src/batch_processor.py and src/main.py:      *)
(* the line parser parse_lab_tests, the formatter format_output, the text  *)
(* extractor extract_text_from_image, the batch sweep process_all_images   *)
(* and the POST /get-lab-tests handler get_lab_tests.                      *)
(*                                                                         *)
(* Python strings are sequences of one-character strings, so that the      *)
(* regular expression, strip(), upper(), split() and float() are computed  *)
(* character by character as the interpreter computes them.                *)
(***************************************************************************)
EXTENDS Integers, Sequences, FiniteSets, TLC

VARIABLES
    \* parse_lab_tests (src/batch_processor.py:76-136)
    text,          \* the argument: one string, lines separated by "\n"
    lines,         \* text.splitlines()
    idx,           \* number of lines the for loop has consumed
    results,       \* the list under construction
    ppc,           \* "call" | "loop" | "done" | "raised" | "off"
    \* get_lab_tests (src/main.py:100-144) and its temp_uploads directory
    spc,           \* position of the handler, "off" when the service is not modelled
    files,         \* temporary files present in UPLOAD_DIR
    nreq,          \* requests accepted so far (the uuid4 of request n is n)
    req,           \* the request in flight: its locals and the environment's answers
    response,      \* the response of the last completed request
    completed,     \* per completed request: what happened and what it left behind
    \* process_all_images (src/batch_processor.py:138-168)
    bpc,           \* "start" | "loop" | "done" | "off"
    indir,         \* INPUT_DIR: file name -> content, or NoDir when it does not exist
    todo,          \* entries os.listdir has not yet yielded
    outdir,        \* OUTPUT_DIR: output file name -> the JSON array written
    image_count,
    written        \* input file name -> the array json.dump wrote for it

vars == <<text, lines, idx, results, ppc, spc, files, nreq, req, response,
          completed, bpc, indir, todo, outdir, image_count, written>>

parseVars == <<text, lines, idx, results, ppc>>
serviceVars == <<spc, files, nreq, req, response, completed>>
batchVars == <<bpc, indir, todo, outdir, image_count, written>>

---------------------------------------------------------------------------
(* Bounds of the model *)

MaxNameTokens == 2   \* words in the name of a generated report line
MaxRaw == 4          \* length of the exhaustively enumerated raw lines
MaxLines == 3        \* lines of a generated multi-line text
MaxRequests == 2     \* POST requests served in one run
MaxFiles == 3        \* entries of the batch input directory
MaxRecs == 2         \* records handed to format_output directly

---------------------------------------------------------------------------
(* Characters and the classes the pattern of line 90 uses *)

Digits == {"0", "1", "2", "3", "4", "5", "6", "7", "8", "9"}
LowerSeq == <<"b", "d", "e", "f", "g", "h", "i", "j", "l", "m", "n", "p", "t", "x">>
UpperSeq == <<"B", "D", "E", "F", "G", "H", "I", "J", "L", "M", "N", "P", "T", "X">>
LowerLetters == {LowerSeq[i] : i \in 1..Len(LowerSeq)}
UpperLetters == {UpperSeq[i] : i \in 1..Len(UpperSeq)}
Letters == LowerLetters \cup UpperLetters
Whitespace == {" ", "\t"}

DigitVal(c) ==
    CASE c = "0" -> 0 [] c = "1" -> 1 [] c = "2" -> 2 [] c = "3" -> 3
      [] c = "4" -> 4 [] c = "5" -> 5 [] c = "6" -> 6 [] c = "7" -> 7
      [] c = "8" -> 8 [] c = "9" -> 9

\* [\s:]
SepClass == Whitespace \cup {":"}
\* [\d.]
NumClass == Digits \cup {"."}
\* [a-zA-Z%/]
UnitClass == Letters \cup {"%", "/"}
\* [\s]
SpaceClass == Whitespace

IsSep(c) == c \in SepClass
IsNum(c) == c \in NumClass
IsSpace(c) == c \in SpaceClass

\* str.upper() and str.lower() on one character
UpperChar(c) ==
    IF c \in LowerLetters
    THEN UpperSeq[CHOOSE i \in 1..Len(LowerSeq) : LowerSeq[i] = c]
    ELSE c
LowerChar(c) ==
    IF c \in UpperLetters
    THEN LowerSeq[CHOOSE i \in 1..Len(UpperSeq) : UpperSeq[i] = c]
    ELSE c

lower(s) == [i \in 1..Len(s) |-> LowerChar(s[i])]
upper(s) == [i \in 1..Len(s) |-> UpperChar(s[i])]

\* str.strip(): leading and trailing whitespace removed
strip(s) ==
    LET keep == {i \in 1..Len(s) : ~IsSpace(s[i])}
    IN  IF keep = {} THEN <<>>
        ELSE LET lo == CHOOSE i \in keep : \A j \in keep : i <= j
                 hi == CHOOSE i \in keep : \A j \in keep : j <= i
             IN  SubSeq(s, lo, hi)

\* str.splitlines() for the line boundary "\n": a final "\n" opens no line
RECURSIVE splitlines(_)
splitlines(s) ==
    IF s = <<>> THEN <<>>
    ELSE LET nl == {i \in 1..Len(s) : s[i] = "\n"}
         IN  IF nl = {} THEN <<s>>
             ELSE LET k == CHOOSE i \in nl : \A j \in nl : i <= j
                  IN  <<SubSeq(s, 1, k - 1)>> \o splitlines(SubSeq(s, k + 1, Len(s)))

\* str.split(sep) for a one-character separator
RECURSIVE split(_, _)
split(s, sep) ==
    LET at == {i \in 1..Len(s) : s[i] = sep}
    IN  IF at = {} THEN <<s>>
        ELSE LET k == CHOOSE i \in at : \A j \in at : i <= j
             IN  <<SubSeq(s, 1, k - 1)>> \o split(SubSeq(s, k + 1, Len(s)), sep)

---------------------------------------------------------------------------
(* float() on the strings the pattern can capture, and float comparison.   *)
(* A decimal literal is kept exactly as mantissa / 10^scale; on literals   *)
(* of this length the double nearest to it orders the same way.            *)

RECURSIVE DigitsToNat(_)
DigitsToNat(s) ==
    IF s = <<>> THEN 0
    ELSE DigitsToNat(SubSeq(s, 1, Len(s) - 1)) * 10 + DigitVal(s[Len(s)])

RECURSIVE Pow10(_)
Pow10(n) == IF n = 0 THEN 1 ELSE 10 * Pow10(n - 1)

\* float(s): ValueError (ok = FALSE) unless s is digits with at most one "."
\* and at least one digit
float(s) ==
    LET dots == {i \in 1..Len(s) : s[i] = "."}
        digs == SelectSeq(s, LAMBDA c : c \in Digits)
    IN  IF /\ \A i \in 1..Len(s) : IsNum(s[i])
           /\ Cardinality(dots) <= 1
           /\ digs # <<>>
        THEN [ok |-> TRUE, m |-> DigitsToNat(digs),
              sc |-> IF dots = {} THEN 0 ELSE Len(s) - (CHOOSE i \in dots : TRUE)]
        ELSE [ok |-> FALSE, m |-> 0, sc |-> 0]

\* a <= b on floats
Leq(a, b) == a.m * Pow10(b.sc) <= b.m * Pow10(a.sc)

---------------------------------------------------------------------------
(* re.match(pattern, s) for the pattern of line 90:                        *)
(*   (.*?)[\s:]+([\d.]+)[\s]*([a-zA-Z%/]+)?[\s]*[\(]?([\d.]+-[\d.]+)?[\)]?  *)
(* The lazy name takes the shortest prefix after which a separator run     *)
(* followed by a [\d.] character starts; every later item is greedy and    *)
(* optional, so the first path the backtracking matcher completes takes    *)
(* each maximal run.  An unmatched optional group is None.                 *)

None == [some |-> FALSE, s |-> <<>>]
Group(str) == [some |-> TRUE, s |-> str]

\* end of the maximal run of characters of the class that starts at i
\* (i - 1 when s[i] is not of the class)
RunEnd(s, i, class) ==
    CHOOSE j \in (i - 1)..Len(s) :
        /\ \A k \in i..j : s[k] \in class
        /\ (j = Len(s) \/ s[j + 1] \notin class)

Min(S) == CHOOSE i \in S : \A j \in S : i <= j

\* a [\d.] character follows position e
NumFollows(s, e) == e < Len(s) /\ IsNum(s[e + 1])

\* the lengths n of (.*?) after which [\s:]+([\d.]+) matches
MatchStarts(s) ==
    {n \in 0..(Len(s) - 1) :
        IsSep(s[n + 1]) /\ NumFollows(s, RunEnd(s, n + 1, SepClass))}

\* The positions of a match, filled in pattern order.  n: length of the
\* name; sepEnd, valEnd, ws1, unitEnd, ws2: ends of [\s:]+, ([\d.]+), [\s]*,
\* ([a-zA-Z%/]+)?, [\s]*; p: end of [\(]?; lowEnd: end of the first [\d.]+
\* of the range group; highEnd: end of the group (lowEnd when it fails).
Positions(n) ==
    [n |-> n, sepEnd |-> 0, valEnd |-> 0, ws1 |-> 0, unitEnd |-> 0, ws2 |-> 0,
     p |-> 0, lowEnd |-> 0, highEnd |-> 0]
ScanSep(s, m) == [m EXCEPT !.sepEnd = RunEnd(s, m.n + 1, SepClass)]
ScanValue(s, m) == [m EXCEPT !.valEnd = RunEnd(s, m.sepEnd + 1, NumClass)]
ScanWs1(s, m) == [m EXCEPT !.ws1 = RunEnd(s, m.valEnd + 1, SpaceClass)]
ScanUnit(s, m) == [m EXCEPT !.unitEnd = RunEnd(s, m.ws1 + 1, UnitClass)]
ScanWs2(s, m) == [m EXCEPT !.ws2 = RunEnd(s, m.unitEnd + 1, SpaceClass)]
ScanParen(s, m) ==
    [m EXCEPT !.p = IF m.ws2 < Len(s) /\ s[m.ws2 + 1] = "(" THEN m.ws2 + 1 ELSE m.ws2]
ScanLow(s, m) == [m EXCEPT !.lowEnd = RunEnd(s, m.p + 1, NumClass)]
ScanHigh(s, m) ==
    [m EXCEPT !.highEnd =
        IF m.lowEnd >= m.p + 1 /\ m.lowEnd < Len(s) /\ s[m.lowEnd + 1] = "-"
        THEN RunEnd(s, m.lowEnd + 2, NumClass)
        ELSE m.lowEnd]

\* match.groups()
Groups(s, m) ==
    [ok |-> TRUE,
     name |-> Group(SubSeq(s, 1, m.n)),
     value |-> Group(SubSeq(s, m.sepEnd + 1, m.valEnd)),
     unit |-> IF m.unitEnd >= m.ws1 + 1 THEN Group(SubSeq(s, m.ws1 + 1, m.unitEnd))
              ELSE None,
     ref_range |-> IF m.highEnd >= m.lowEnd + 2
                   THEN Group(SubSeq(s, m.p + 1, m.highEnd))
                   ELSE None]

MatchAt(s, n) ==
    Groups(s, ScanHigh(s, ScanLow(s, ScanParen(s, ScanWs2(s, ScanUnit(s,
              ScanWs1(s, ScanValue(s, ScanSep(s, Positions(n))))))))))

MatchFrom(s, starts) ==
    IF starts = {} THEN [ok |-> FALSE] ELSE MatchAt(s, Min(starts))

re_match(s) == MatchFrom(s, MatchStarts(s))

---------------------------------------------------------------------------
(* parse_lab_tests *)

\* line 118, the comparison low <= float_value <= high
in_range(low, v, high) == Leq(low, v) /\ Leq(v, high)

\* line 117: low, high = map(float, ref_range.split('-')) raises ValueError
\* unless there are two parts and float() takes both
unpack_ok(parts) == Len(parts) = 2 /\ float(parts[1]).ok /\ float(parts[2]).ok

\* lines 116-121: the inner try
inner_try_uncaught(parts, fv) ==
    IF unpack_ok(parts)
    THEN [raised |-> FALSE, out |-> ~in_range(float(parts[1]), fv, float(parts[2]))]
    ELSE [raised |-> TRUE, out |-> FALSE]
inner_try(parts, fv) ==
    IF unpack_ok(parts)
    THEN [raised |-> FALSE, out |-> ~in_range(float(parts[1]), fv, float(parts[2]))]
    ELSE [raised |-> FALSE, out |-> FALSE]

\* lines 114-121: is_out_of_range, and whether a ValueError leaves the inner try
range_check(ref_range, fv) ==
    IF ref_range = <<>> THEN [raised |-> FALSE, out |-> FALSE]
    ELSE inner_try(split(ref_range, "-"), fv)

\* lines 130-133: the handler of the outer try
except_ValueError_absent(res) == [raised |-> TRUE, results |-> res]
except_ValueError(res) == [raised |-> FALSE, results |-> res]

\* line 123: results.append(...)
append_unless_present(res, rec) ==
    IF \E i \in 1..Len(res) : res[i] = rec THEN res ELSE Append(res, rec)
append(res, rec) == Append(res, rec)

\* lines 123-129, rc the outcome of lines 114-121
append_record(res, name, value, unit, ref_range, rc) ==
    IF rc.raised THEN except_ValueError(res)
    ELSE [raised |-> FALSE,
          results |-> append(res,
              [test_name |-> name,
               test_value |-> value,
               bio_reference_range |-> ref_range,
               test_unit |-> unit,
               lab_test_out_of_range |-> rc.out])]

\* lines 111-129, fv the outcome of float(value)
with_float(res, name, value, unit, ref_range, fv) ==
    IF ~fv.ok THEN except_ValueError(res)
    ELSE append_record(res, name, value, unit, ref_range, range_check(ref_range, fv))

\* lines 110-133
try_block(res, name, value, unit, ref_range) ==
    with_float(res, name, value, unit, ref_range, float(value))

\* lines 102-104: g.strip() if g else ""  (None and "" are both falsy)
clean(g) == IF g.some /\ g.s # <<>> THEN strip(g.s) ELSE <<>>

\* line 101: name.strip().upper() if name else ""
clean_name(g) == IF g.some /\ g.s # <<>> THEN upper(strip(g.s)) ELSE <<>>

\* lines 106-108, then the try block
check_empty_skipped(res, name, value, unit, ref_range) ==
    try_block(res, name, value, unit, ref_range)
check_empty(res, name, value, unit, ref_range) ==
    IF name = <<>> \/ value = <<>>
    THEN [raised |-> FALSE, results |-> res]
    ELSE try_block(res, name, value, unit, ref_range)

\* lines 97-133
on_match(res, match) ==
    IF ~match.ok THEN [raised |-> FALSE, results |-> res]
    ELSE check_empty(res, clean_name(match.name), clean(match.value),
                     clean(match.unit), clean(match.ref_range))

\* lines 93-133: the body of the for loop on one line
loop_body(res, line) ==
    IF strip(line) = <<>> THEN [raised |-> FALSE, results |-> res]
    ELSE on_match(res, re_match(strip(line)))

\* lines 86-136 as one call: the list returned, or raised
RECURSIVE for_lines(_, _, _)
next_line(r, ls, k) == IF r.raised THEN r ELSE for_lines(ls, k + 1, r.results)
for_lines(ls, k, res) ==
    IF k > Len(ls) THEN [raised |-> FALSE, results |-> res]
    ELSE next_line(loop_body(res, ls[k]), ls, k)

parse_lab_tests(t) == for_lines(splitlines(t), 1, <<>>)

---------------------------------------------------------------------------
(* Input texts of the parser runs *)

Cat3(a, b, c) == a \o b \o c

\* words a test name is made of; the last one is a numeric token
NameWords == {<<"H", "b">>, <<"B">>, <<"1", "2">>}

\* names of at most k of the words
RECURSIVE NamesOf(_, _)
NamesOf(words, k) ==
    IF k <= 1 THEN words
    ELSE NamesOf(words, k - 1) \cup
         {Cat3(n, <<" ">>, w) : n \in NamesOf(words, k - 1), w \in words}

ValueTokens ==
    {<<"2">>, <<"2", ".", "5">>, <<"1", "0">>, <<"1", ".", "2", ".", "3">>, <<".">>}
UnitTokens == {<<>>, <<"g", "/", "d", "L">>, <<"%">>}
Halves ==
    {<<"2">>, <<"2", ".", "5">>, <<"9">>, <<"1", "1">>, <<"1", ".", "2", ".", "3">>}
RangeTokens ==
    {<<>>}
    \cup {Cat3(lo, <<"-">>, hi) : lo \in Halves, hi \in Halves}
    \cup {<<"(">> \o Cat3(lo, <<"-">>, hi) \o <<")">> : lo \in Halves, hi \in Halves}

\* <name> <value> [<unit>] [<range>], single spaces between the parts
ReportLine(name, value, unit, range) ==
    Cat3(name, <<" ">>, value)
      \o (IF unit = <<>> THEN <<>> ELSE <<" ">> \o unit)
      \o (IF range = <<>> THEN <<>> ELSE <<" ">> \o range)

ReportLines ==
    {ReportLine(n, v, u, r) :
        n \in NamesOf(NameWords, MaxNameTokens), v \in ValueTokens,
        u \in UnitTokens, r \in RangeTokens}

\* every string of at most MaxRaw of these characters
RawChars == {"B", "g", " ", ":", "2", ".", "-"}
RawLines == UNION {[1..n -> RawChars] : n \in 0..MaxRaw}

\* lines of the multi-line texts: two valid lines, a line without digits,
\* a blank line, a line whose value is not a number
SampleLines ==
    {<<"H", "b", " ", "2", " ", "g", " ", "(", "2", "-", "9", ")">>,
     <<"B", ":", " ", "1", "0">>,
     <<"B", "g">>,
     <<" ">>,
     <<"B", " ", "1", ".", "2", ".", "3">>}

RECURSIVE JoinLines(_)
JoinLines(ls) ==
    IF ls = <<>> THEN <<>>
    ELSE IF Len(ls) = 1 THEN ls[1]
    ELSE Cat3(ls[1], <<"\n">>, JoinLines(Tail(ls)))

LineSeqs == UNION {[1..n -> SampleLines] : n \in 2..MaxLines}
MultiTexts == {JoinLines(ls) : ls \in LineSeqs}
              \cup {JoinLines(ls) \o <<"\n">> : ls \in LineSeqs}

ParseInputs == ReportLines \cup RawLines \cup MultiTexts

---------------------------------------------------------------------------
(* Components a specification leaves out stay in these states *)

NoError == [kind |-> "none", msg |-> ""]
NoRequest ==
    [id |-> 0, filename |-> <<>>, ext |-> <<>>, created |-> FALSE,
     extract |-> "none", text |-> <<>>, parsed_data |-> <<>>,
     formatted_data |-> <<>>, error |-> NoError]
NoResponse == [status |-> 0]

ParseOff ==
    /\ text = <<>> /\ lines = <<>> /\ idx = 0 /\ results = <<>> /\ ppc = "off"
ServiceOff ==
    /\ spc = "off" /\ files = {} /\ nreq = 0 /\ req = NoRequest
    /\ response = NoResponse /\ completed = <<>>
BatchOff ==
    /\ bpc = "off" /\ indir = [exists |-> FALSE, files |-> <<>>] /\ todo = {}
    /\ outdir = <<>> /\ image_count = 0 /\ written = <<>>

---------------------------------------------------------------------------
(* parse_lab_tests, one loop iteration at a time *)

InitParse ==
    /\ text \in ParseInputs
    /\ lines = <<>> /\ idx = 0 /\ results = <<>> /\ ppc = "call"
    /\ ServiceOff /\ BatchOff

\* lines 86-87
ParseStart ==
    /\ ppc = "call"
    /\ lines' = splitlines(text)
    /\ results' = <<>>
    /\ idx' = 0
    /\ ppc' = "loop"
    /\ UNCHANGED <<text, serviceVars, batchVars>>

\* lines 92-133, one iteration
ParseStep ==
    /\ ppc = "loop"
    /\ idx < Len(lines)
    /\ \E r \in {loop_body(results, lines[idx + 1])} :
           /\ results' = r.results
           /\ idx' = idx + 1
           /\ ppc' = IF r.raised THEN "raised" ELSE "loop"
    /\ UNCHANGED <<text, lines, serviceVars, batchVars>>

\* lines 135-136
ParseReturn ==
    /\ ppc = "loop"
    /\ idx = Len(lines)
    /\ ppc' = "done"
    /\ UNCHANGED <<text, lines, idx, results, serviceVars, batchVars>>

NextParse == ParseStart \/ ParseStep \/ ParseReturn

SpecParse == InitParse /\ [][NextParse]_vars

---------------------------------------------------------------------------
(* format_output, src/batch_processor.py:24-37 *)

\* the keys in the order the dict display of lines 30-36 reads them
FieldOrder ==
    <<"test_name", "test_value", "bio_reference_range", "test_unit",
      "lab_test_out_of_range">>
FieldNames == {FieldOrder[i] : i \in 1..Len(FieldOrder)}

\* lines 30-36 on one entry: entry[key] raises KeyError(key) for the first
\* key the entry lacks
format_entry_with_defaults(entry) ==
    [raised |-> FALSE, key |-> "",
     value |-> [f \in FieldNames |->
                  IF f \in DOMAIN entry THEN entry[f]
                  ELSE IF f = "lab_test_out_of_range" THEN FALSE ELSE <<>>]]
format_entry(entry) ==
    LET missing == {i \in 1..Len(FieldOrder) : FieldOrder[i] \notin DOMAIN entry}
    IN  IF missing # {}
        THEN [raised |-> TRUE,
              key |-> FieldOrder[CHOOSE i \in missing : \A j \in missing : i <= j],
              value |-> <<>>]
        ELSE [raised |-> FALSE, key |-> "",
              value |-> [f \in FieldNames |-> entry[f]]]

\* lines 29-37: the loop from entry k on
RECURSIVE format_from(_, _, _)
next_entry(e, parsed_data, k, formatted_data) ==
    IF e.raised THEN e
    ELSE format_from(parsed_data, k + 1, Append(formatted_data, e.value))
format_from(parsed_data, k, formatted_data) ==
    IF k > Len(parsed_data)
    THEN [raised |-> FALSE, key |-> "", value |-> formatted_data]
    ELSE next_entry(format_entry(parsed_data[k]), parsed_data, k, formatted_data)

format_output(parsed_data) == format_from(parsed_data, 1, <<>>)

---------------------------------------------------------------------------
(* extract_text_from_image, src/batch_processor.py:39-74.  cv2 and the OCR *)
(* engine are the environment: what they do with an image is its outcome.  *)

ExtractOutcomes == {"unreadable", "cv_error", "ocr_error", "ok"}

\* "unreadable": cv2.imread returns None (line 52); "cv_error": a cv2 call of
\* lines 58-64 raises; "ocr_error": image_to_string raises (line 68);
\* "ok": image_to_string returns t
extract_without_handler(outcome, t) ==
    CASE outcome = "unreadable" -> [raised |-> FALSE, value |-> <<>>]
      [] outcome = "ok" -> [raised |-> FALSE, value |-> t]
      [] OTHER -> [raised |-> TRUE, value |-> <<>>]
extract_text_from_image(outcome, t) ==
    CASE outcome = "unreadable" -> [raised |-> FALSE, value |-> <<>>]
      [] outcome = "ok" -> [raised |-> FALSE, value |-> t]
      [] OTHER -> [raised |-> FALSE, value |-> <<>>]

\* texts the OCR engine returns: one valid line, a line without digits,
\* a valid line between two skipped ones
OcrTexts ==
    {<<"H", "b", " ", "2", " ", "g", " ", "(", "2", "-", "9", ")">>,
     <<"B", "g">>,
     <<"B", "g", "\n", "B", ":", " ", "1", "0", "\n", "\n">>}

---------------------------------------------------------------------------
(* os.path.splitext and str.endswith *)

LastIndex(s, c) ==
    LET at == {i \in 1..Len(s) : s[i] = c}
    IN  IF at = {} THEN 0 ELSE CHOOSE i \in at : \A j \in at : j <= i

\* the extension starts at the last dot of the last path component, unless
\* only dots precede it there
splitext(path) ==
    LET sepIndex == LastIndex(path, "/")
        dotIndex == LastIndex(path, ".")
    IN  IF dotIndex > sepIndex
           /\ \E i \in (sepIndex + 1)..(dotIndex - 1) : path[i] # "."
        THEN <<SubSeq(path, 1, dotIndex - 1), SubSeq(path, dotIndex, Len(path))>>
        ELSE <<path, <<>>>>

endswith(s, suffix) ==
    /\ Len(suffix) <= Len(s)
    /\ SubSeq(s, Len(s) - Len(suffix) + 1, Len(s)) = suffix

---------------------------------------------------------------------------
(* POST /get-lab-tests, src/main.py:100-144.  The handler is an async      *)
(* function without an await, so the event loop runs one request to its    *)
(* end before the next one starts.                                         *)

Filenames ==
    {<<>>, <<"x", ".", "j", "p", "g">>, <<"x">>, <<"x", ".", "t", ".", "g">>}

\* line 115: os.path.join(UPLOAD_DIR, f"{file_id}{file_extension}")
file_path(r) == [id |-> r.id, ext |-> r.ext]

\* line 139: the classes "except Exception" catches
except_only_ValueError(kind) == kind = "ValueError"
except_Exception(kind) == kind \in {"OSError", "KeyError", "ValueError", "cv2.error",
                                    "TesseractError"}

\* line 135
remove(fs, path) == fs \ {path}

InitService ==
    /\ spc = "idle" /\ files = {} /\ nreq = 0 /\ req = NoRequest
    /\ response = NoResponse /\ completed = <<>>
    /\ ParseOff /\ BatchOff

\* lines 112-115
Receive ==
    /\ spc = "idle"
    /\ nreq < MaxRequests
    /\ \E fn \in Filenames :
         req' = [NoRequest EXCEPT
                   !.id = nreq + 1,
                   !.filename = fn,
                   !.ext = IF fn = <<>> THEN <<".", "p", "n", "g">>
                           ELSE splitext(fn)[2]]
    /\ nreq' = nreq + 1
    /\ spc' = "save"
    /\ UNCHANGED <<files, response, completed, parseVars, batchVars>>

\* lines 118-119: open() creates the file, copyfileobj fills it
Save ==
    /\ spc = "save"
    /\ \E o \in {"ok", "open_fails", "copy_fails"} :
         /\ files' = IF o = "open_fails" THEN files
                     ELSE files \cup {file_path(req)}
         /\ req' = [req EXCEPT
                      !.created = (o # "open_fails"),
                      !.error = IF o = "ok" THEN NoError
                                ELSE [kind |-> "OSError", msg |-> o]]
         /\ spc' = IF o = "ok" THEN "extract" ELSE "except"
    /\ UNCHANGED <<nreq, response, completed, parseVars, batchVars>>

\* lines 124-125
Extract ==
    /\ spc = "extract"
    /\ \E o \in ExtractOutcomes :
       \E t \in (IF o = "ok" THEN OcrTexts ELSE {<<>>}) :
       \E r \in {extract_text_from_image(o, t)} :
             /\ req' = [req EXCEPT
                          !.extract = o,
                          !.text = r.value,
                          !.error = IF r.raised
                                    THEN [kind |-> IF o = "cv_error" THEN "cv2.error"
                                                   ELSE "TesseractError",
                                          msg |-> o]
                                    ELSE NoError]
             /\ spc' = IF r.raised THEN "except" ELSE "parse"
    /\ UNCHANGED <<files, nreq, response, completed, parseVars, batchVars>>

\* lines 128-129
Parse ==
    /\ spc = "parse"
    /\ \E r \in {parse_lab_tests(req.text)} :
           /\ req' = [req EXCEPT
                        !.parsed_data = r.results,
                        !.error = IF r.raised
                                  THEN [kind |-> "ValueError", msg |-> "float"]
                                  ELSE NoError]
           /\ spc' = IF r.raised THEN "except" ELSE "format"
    /\ UNCHANGED <<files, nreq, response, completed, parseVars, batchVars>>

\* line 132
Format ==
    /\ spc = "format"
    /\ \E r \in {format_output(req.parsed_data)} :
           /\ req' = [req EXCEPT
                        !.formatted_data = r.value,
                        !.error = IF r.raised
                                  THEN [kind |-> "KeyError", msg |-> r.key]
                                  ELSE NoError]
           /\ spc' = IF r.raised THEN "except" ELSE "remove"
    /\ UNCHANGED <<files, nreq, response, completed, parseVars, batchVars>>

\* lines 135-136
Remove ==
    /\ spc = "remove"
    /\ \E o \in {"ok", "fails"} :
         /\ files' = IF o = "ok" THEN remove(files, file_path(req)) ELSE files
         /\ req' = [req EXCEPT
                      !.error = IF o = "ok" THEN NoError
                                ELSE [kind |-> "OSError", msg |-> "remove_fails"]]
         /\ spc' = IF o = "ok" THEN "return" ELSE "except"
    /\ UNCHANGED <<nreq, response, completed, parseVars, batchVars>>

\* what a request leaves when its handler is over
Outcome(r, resp, fs) ==
    [id |-> r.id, created |-> r.created, extract |-> r.extract,
     parsed_data |-> r.parsed_data, error |-> r.error,
     response |-> resp, left_behind |-> file_path(r) \in fs]

\* line 138
Return ==
    /\ spc = "return"
    /\ response' = [status |-> 200, is_success |-> TRUE, data |-> req.formatted_data]
    /\ completed' = Append(completed, Outcome(req, response', files))
    /\ spc' = "idle"
    /\ UNCHANGED <<files, nreq, req, parseVars, batchVars>>

\* lines 139-144; an exception the clause does not catch leaves the handler
Except ==
    /\ spc = "except"
    /\ response' = IF except_Exception(req.error.kind)
                   THEN [status |-> 500, is_success |-> FALSE, error |-> req.error.msg]
                   ELSE [status |-> -1, escaped |-> req.error.kind]
    /\ completed' = Append(completed, Outcome(req, response', files))
    /\ spc' = "idle"
    /\ UNCHANGED <<files, nreq, req, parseVars, batchVars>>

NextService ==
    Receive \/ Save \/ Extract \/ Parse \/ Format \/ Remove \/ Return \/ Except

SpecService == InitService /\ [][NextService]_vars

---------------------------------------------------------------------------
(* format_output on arbitrary record lists, called where the handler calls *)
(* it (line 132, inside the try block, the upload saved).  A list whose    *)
(* records lack fields is the premise of the formatter's contract; no      *)
(* output of parse_lab_tests is one.                                       *)

FieldValue(f) ==
    IF f = "lab_test_out_of_range" THEN FALSE
    ELSE IF f = "test_name" THEN <<"H", "B">>
    ELSE IF f = "test_value" THEN <<"2">>
    ELSE <<>>

PartialRecords == {[f \in fs |-> FieldValue(f)] : fs \in SUBSET FieldNames}
RecordLists == UNION {[1..n -> PartialRecords] : n \in 0..MaxRecs}

InitFormat ==
    /\ spc = "format"
    /\ nreq = 1
    /\ \E pd \in RecordLists :
         req = [NoRequest EXCEPT
                  !.id = 1, !.filename = <<"x">>, !.created = TRUE,
                  !.extract = "ok", !.parsed_data = pd]
    /\ files = {file_path(req)}
    /\ response = NoResponse /\ completed = <<>>
    /\ ParseOff /\ BatchOff

NextFormat == Format \/ Remove \/ Return \/ Except

SpecFormat == InitFormat /\ [][NextFormat]_vars

---------------------------------------------------------------------------
(* process_all_images, src/batch_processor.py:138-168 *)

AcceptedExtensions ==
    {<<".", "p", "n", "g">>, <<".", "j", "p", "g">>, <<".", "j", "p", "e", "g">>,
     <<".", "t", "i", "f">>, <<".", "t", "i", "f", "f">>, <<".", "b", "m", "p">>}

\* line 150
accepts(file_name) ==
    \E e \in AcceptedExtensions : endswith(lower(file_name), e)

\* line 161: the output's name inside OUTPUT_DIR
output_name(file_name) ==
    splitext(file_name)[1] \o <<".", "j", "s", "o", "n">>

BatchNames ==
    {<<"b", ".", "p", "n", "g">>, <<"b", ".", "j", "p", "g">>,
     <<"d", ".", "P", "N", "G">>, <<"t", ".", "t", "x", "t">>,
     <<".", "p", "n", "g">>, <<"b", ".", "d", ".", "t", "i", "f">>}

\* what a directory entry is to cv2 and the OCR engine: a zero-byte or
\* corrupt file is unreadable, an image may make the engine fail
ImageContents ==
    {[o |-> "unreadable", t |-> <<>>], [o |-> "ocr_error", t |-> <<>>]}
    \cup {[o |-> "ok", t |-> t] : t \in {<<"H", "b", " ", "2", " ", "g">>, <<"B", "g">>}}

Directories ==
    UNION {[names -> ImageContents] :
             names \in {n \in SUBSET BatchNames : Cardinality(n) <= MaxFiles}}

InitBatch ==
    /\ bpc = "start"
    /\ \/ indir = [exists |-> FALSE, files |-> <<>>]
       \/ \E d \in Directories : indir = [exists |-> TRUE, files |-> d]
    /\ todo = {} /\ outdir = <<>> /\ image_count = 0 /\ written = <<>>
    /\ ParseOff /\ ServiceOff

\* f with x mapped to v
Put(f, x, v) == [k \in DOMAIN f \cup {x} |-> IF k = x THEN v ELSE f[k]]

\* lines 142-149
BatchStart ==
    /\ bpc = "start"
    /\ IF indir.exists
       THEN /\ todo' = DOMAIN indir.files
            /\ bpc' = "loop"
       ELSE /\ todo' = {}
            /\ bpc' = "done"
    /\ image_count' = 0
    /\ UNCHANGED <<indir, outdir, written, parseVars, serviceVars>>

\* lines 149-166, one iteration; os.listdir yields the entries in any order
BatchFile ==
    /\ bpc = "loop"
    /\ \E file_name \in todo :
         /\ todo' = todo \ {file_name}
         /\ IF accepts(file_name)
            THEN \E x \in {extract_text_from_image(indir.files[file_name].o,
                                                     indir.files[file_name].t)} :
                 \E r \in {parse_lab_tests(x.value)} :
                     IF x.raised \/ r.raised
                     THEN /\ bpc' = "aborted"
                          /\ UNCHANGED <<outdir, written, image_count>>
                     ELSE /\ outdir' = Put(outdir, output_name(file_name), r.results)
                          /\ written' = Put(written, file_name, r.results)
                          /\ image_count' = image_count + 1
                          /\ bpc' = "loop"
            ELSE UNCHANGED <<bpc, outdir, written, image_count>>
    /\ UNCHANGED <<indir, parseVars, serviceVars>>

\* line 168
BatchEnd ==
    /\ bpc = "loop"
    /\ todo = {}
    /\ bpc' = "done"
    /\ UNCHANGED <<indir, todo, outdir, written, image_count, parseVars, serviceVars>>

NextBatch == BatchStart \/ BatchFile \/ BatchEnd

SpecBatch == InitBatch /\ [][NextBatch]_vars

---------------------------------------------------------------------------
(* Vocabulary of the properties *)

Chars ==
    Digits \cup Letters \cup Whitespace
    \cup {":", ".", "-", "(", ")", "%", "/", "\n", "s", "o"}

IsString(x) == x \in Seq(Chars)

\* a < b on floats
Lt(a, b) == ~Leq(b, a)

IsNumberText(s) == float(s).ok

\* names without a numeric word
PlainWords == {w \in NameWords : \A i \in 1..Len(w) : w[i] \notin Digits}
PlainNames == NamesOf(PlainWords, MaxNameTokens)

Paren(lo, hi) == <<"(">> \o Cat3(lo, <<"-">>, hi) \o <<")">>

\* the lines <name> <value> <unit> (<low>-<high>) with numbers for value,
\* low and high, keyed by the line
WellFormedParts(names) ==
    {[name |-> n, value |-> v, unit |-> u, low |-> lo, high |-> hi] :
        n \in names,
        v \in {x \in ValueTokens : IsNumberText(x)},
        u \in UnitTokens \ {<<>>},
        lo \in {x \in Halves : IsNumberText(x)},
        hi \in {x \in Halves : IsNumberText(x)}}
WellFormedLine(w) == ReportLine(w.name, w.value, w.unit, Paren(w.low, w.high))
TableOf(parts) ==
    [l \in {WellFormedLine(w) : w \in parts} |->
        CHOOSE w \in parts : WellFormedLine(w) = l]
WellFormed == TableOf(WellFormedParts(NamesOf(NameWords, MaxNameTokens)))
WellFormedPlain == TableOf(WellFormedParts(PlainNames))

\* the record the claim expects of a well-formed line
Expected(w, rec) ==
    /\ rec.test_value = w.value
    /\ rec.bio_reference_range = Cat3(w.low, <<"-">>, w.high)
    /\ rec.lab_test_out_of_range =
         (Lt(float(w.value), float(w.low)) \/ Lt(float(w.high), float(w.value)))

---------------------------------------------------------------------------
(* C3: every well-formed line <name> <value> <unit> (<low>-<high>), its    *)
(* name of several words or holding a numeric word, yields exactly one     *)
(* record with test_value the value's text, bio_reference_range low-high   *)
(* and lab_test_out_of_range = (value < low or value > high).              *)
(* The parser breaks it on a name with a numeric word, "B 12 2 g/dL (2-9)".*)
C3_WellFormedLineParsed ==
    (ppc = "done" /\ text \in DOMAIN WellFormed) =>
        /\ Len(results) = 1
        /\ Expected(WellFormed[text], results[1])

\* what does hold: the same for the names without a numeric word
C3_PlainNameLineParsed ==
    (ppc = "done" /\ text \in DOMAIN WellFormedPlain) =>
        /\ Len(results) = 1
        /\ Expected(WellFormedPlain[text], results[1])
        /\ results[1].test_name = upper(WellFormedPlain[text].name)
        /\ results[1].test_unit = WellFormedPlain[text].unit

C3_PlainNameWitness ==
    /\ ppc = "done"
    /\ text \in DOMAIN WellFormedPlain
    /\ Len(WellFormedPlain[text].name) > 2
    /\ Len(results) = 1
    /\ results[1].lab_test_out_of_range

---------------------------------------------------------------------------
(* C4: a record's lab_test_out_of_range is false whenever its              *)
(* bio_reference_range is empty or has a half that is no number            *)
(* ("1.2.3-9"); such a range neither drops the record nor raises: the line *)
(* <name> <value> [<unit>] <range> still yields its one record.            *)

HalvesAreNumbers(r) ==
    /\ Len(split(r, "-")) = 2
    /\ IsNumberText(split(r, "-")[1])
    /\ IsNumberText(split(r, "-")[2])

UnusableRanges ==
    {Cat3(lo, <<"-">>, hi) : lo \in Halves, hi \in Halves} \
    {Cat3(lo, <<"-">>, hi) : lo \in {x \in Halves : IsNumberText(x)},
                             hi \in {x \in Halves : IsNumberText(x)}}

UnusableParts ==
    {[name |-> n, value |-> v, unit |-> u, range |-> r, paren |-> b] :
        n \in PlainNames,
        v \in {x \in ValueTokens : IsNumberText(x)},
        u \in UnitTokens,
        r \in UnusableRanges,
        b \in BOOLEAN}
UnusableLine(w) ==
    ReportLine(w.name, w.value, w.unit,
               IF w.paren THEN Cat3(<<"(">>, w.range, <<")">>) ELSE w.range)
Unusable ==
    [l \in {UnusableLine(w) : w \in UnusableParts} |->
        CHOOSE w \in UnusableParts : UnusableLine(w) = l]

\* C4: nothing is raised; a record whose range is empty or has a half that
\* is no number is flagged in range; a line with such a range keeps its record
C4_UnusableRangeIsInRange ==
    /\ ppc # "raised"
    /\ \A i \in 1..Len(results) :
         (\/ results[i].bio_reference_range = <<>>
          \/ ~HalvesAreNumbers(results[i].bio_reference_range))
         => results[i].lab_test_out_of_range = FALSE
    /\ (ppc = "done" /\ text \in DOMAIN Unusable) =>
         results = <<[test_name |-> upper(Unusable[text].name),
                      test_value |-> Unusable[text].value,
                      bio_reference_range |-> Unusable[text].range,
                      test_unit |-> Unusable[text].unit,
                      lab_test_out_of_range |-> FALSE]>>

C4_Witness ==
    /\ ppc = "done"
    /\ Len(results) = 1
    /\ results[1].bio_reference_range = <<"1", ".", "2", ".", "3", "-", "9">>
    /\ results[1].test_value = <<"1", "0">>
    /\ results[1].lab_test_out_of_range = FALSE

---------------------------------------------------------------------------
(* C5: parse_lab_tests is total.  No exception leaves it, and a blank      *)
(* line, a line without a numeric value token, a line whose name is empty  *)
(* and a line whose value token is no number ("1.2.3", ".") each add no    *)
(* record while the loop goes on to the next line.                         *)

NoDigit(line) == \A i \in 1..Len(line) : line[i] \notin Digits

Skipped(line) ==
    \/ strip(line) = <<>>
    \/ NoDigit(line)
    \/ ~re_match(strip(line)).ok
    \/ re_match(strip(line)).name.s = <<>>
    \/ ~IsNumberText(re_match(strip(line)).value.s)

\* C5: the parser never raises, and an iteration on a blank line, a line
\* without a number, with an empty name or with a value that is no number
\* leaves the list as it is and moves to the next line
C5_ParserIsTotal ==
    /\ [](ppc # "raised")
    /\ [][(ppc = "loop" /\ idx < Len(lines) /\ Skipped(lines[idx + 1]))
             => (results' = results /\ idx' = idx + 1 /\ ppc' = "loop")]_vars

C5_Witness ==
    /\ ppc = "done"
    /\ Len(lines) = 3
    /\ lines[1] = <<"B", " ", "1", ".", "2", ".", "3">>
    /\ lines[2] = <<" ">>
    /\ ~Skipped(lines[3])
    /\ Len(results) = 1

---------------------------------------------------------------------------
(* C6: the list parse_lab_tests builds is, after each line, the records of *)
(* the lines read so far, each parsed on its own, in line order: at most   *)
(* one record per line, nothing reordered, merged or deduplicated.         *)

RECURSIVE RecordsOf(_)
RecordsOf(ls) ==
    IF ls = <<>> THEN <<>>
    ELSE RecordsOf(SubSeq(ls, 1, Len(ls) - 1)) \o loop_body(<<>>, ls[Len(ls)]).results

\* C6: after idx lines the list is the concatenation, in line order, of what
\* each of those lines yields alone, which is at most one record
C6_RecordsInLineOrder ==
    ppc \in {"loop", "done"} =>
        /\ Len(results) <= idx
        /\ \A k \in 1..idx : Len(loop_body(<<>>, lines[k]).results) <= 1
        /\ results = RecordsOf(SubSeq(lines, 1, idx))

\* two identical valid lines around a line without digits: two equal records
C6_Witness ==
    /\ ppc = "done"
    /\ Len(lines) = 3
    /\ lines[1] = lines[3]
    /\ lines[2] = <<"B", "g">>
    /\ Len(results) = 2
    /\ results[1] = results[2]

---------------------------------------------------------------------------
(* C7: every record of parse_lab_tests has exactly the five fields;        *)
(* test_name is non-empty, trimmed and upper-cased; test_value is          *)
(* non-empty and a number; test_unit and bio_reference_range are strings,  *)
(* empty when the line <name> <value> [<unit>] has no unit or no range.    *)

BareParts ==
    {[name |-> n, value |-> v, unit |-> u] :
        n \in PlainNames,
        v \in {x \in ValueTokens : IsNumberText(x)},
        u \in UnitTokens}
BareLine(w) == ReportLine(w.name, w.value, w.unit, <<>>)
Bare ==
    [l \in {BareLine(w) : w \in BareParts} |->
        CHOOSE w \in BareParts : BareLine(w) = l]

\* C7: the shape of every record in the list, and the empty unit and range
\* of the lines that have none
C7_RecordShape ==
    /\ \A i \in 1..Len(results) :
         /\ DOMAIN results[i] = FieldNames
         /\ IsString(results[i].test_name)
         /\ results[i].test_name # <<>>
         /\ strip(results[i].test_name) = results[i].test_name
         /\ upper(results[i].test_name) = results[i].test_name
         /\ IsString(results[i].test_value)
         /\ results[i].test_value # <<>>
         /\ IsNumberText(results[i].test_value)
         /\ IsString(results[i].test_unit)
         /\ IsString(results[i].bio_reference_range)
         /\ results[i].lab_test_out_of_range \in BOOLEAN
    /\ (ppc = "done" /\ text \in DOMAIN Bare) =>
         /\ Len(results) = 1
         /\ results[1].test_unit = Bare[text].unit
         /\ results[1].bio_reference_range = <<>>

C7_Witness ==
    /\ ppc = "done"
    /\ text = <<"H", "b", " ", "2", ".", "5">>
    /\ results = <<[test_name |-> <<"H", "B">>,
                    test_value |-> <<"2", ".", "5">>,
                    bio_reference_range |-> <<>>,
                    test_unit |-> <<>>,
                    lab_test_out_of_range |-> FALSE]>>

---------------------------------------------------------------------------
(* C1: a request that created its temporary upload file has deleted it     *)
(* when the handler returns, on the success path and on every failure      *)
(* path.  The handler removes the file at line 135 only: a request whose   *)
(* copy (line 119) or whose removal raises returns 500 and leaves it.      *)
C1_TempFileDeletedOnReturn ==
    \A i \in 1..Len(completed) :
        completed[i].created => ~completed[i].left_behind

\* what does hold: the requests answered 200 leave no file
C1_DeletedOnSuccess ==
    \A i \in 1..Len(completed) :
        completed[i].response.status = 200 => ~completed[i].left_behind

---------------------------------------------------------------------------
(* C2: after process_all_images, every accepted input image has an output *)
(* JSON file of its own holding the records parsed from it ([] when it     *)
(* yields none or cannot be decoded), as many output files as accepted     *)
(* inputs, also for inputs that share a base name.  Line 161 names the     *)
(* output after the base name: b.png and b.jpg both write b.json.          *)

RecordsOfImage(c) ==
    parse_lab_tests(extract_text_from_image(c.o, c.t).value).results

Accepted == {f \in DOMAIN indir.files : accepts(f)}

\* C2: when the sweep is done there are as many output files as accepted
\* input images, and each image's own output holds the records parsed from it
C2_OneOutputPerImage ==
    (bpc = "done" /\ indir.exists) =>
        /\ Cardinality(DOMAIN outdir) = Cardinality(Accepted)
        /\ \A f \in Accepted :
             /\ output_name(f) \in DOMAIN outdir
             /\ outdir[output_name(f)] = RecordsOfImage(indir.files[f])

\* what does hold: every accepted image is processed and written once, to
\* the file named after its base name, whatever the other images are; the
\* outputs are as many as the distinct base names
C2_EveryImageWritten ==
    /\ bpc # "aborted"
    /\ (bpc = "done" /\ indir.exists) =>
         /\ image_count = Cardinality(Accepted)
         /\ DOMAIN written = Accepted
         /\ \A f \in Accepted : written[f] = RecordsOfImage(indir.files[f])
         /\ DOMAIN outdir = {output_name(f) : f \in Accepted}

---------------------------------------------------------------------------
(* C8: extract_text_from_image returns a string and never raises; for an   *)
(* image cv2 cannot read or on which cv2 or the OCR engine fails it        *)
(* returns "", and extract -> parse -> format then gives an empty record   *)
(* list, not an error.                                                     *)

ExtractFailures == {"unreadable", "cv_error", "ocr_error"}

\* C8: no exception of cv2 or of the OCR engine reaches the handler; the
\* text is a string, empty after a failed extraction, and the request of
\* such an image is answered 200 with an empty data list
C8_ExtractNeverRaises ==
    /\ req.error.kind \notin {"cv2.error", "TesseractError"}
    /\ IsString(req.text)
    /\ (req.extract \in ExtractFailures) =>
         /\ req.text = <<>>
         /\ (spc \in {"format", "remove", "return", "idle"} => req.parsed_data = <<>>)
         /\ (spc \in {"remove", "return", "idle"} => req.formatted_data = <<>>)
         /\ req.error.kind \notin {"ValueError", "KeyError"}
    /\ \A i \in 1..Len(completed) :
         (completed[i].extract \in ExtractFailures /\ completed[i].error = NoError)
         => completed[i].response = [status |-> 200, is_success |-> TRUE, data |-> <<>>]

C8_Witness ==
    /\ Len(completed) = 1
    /\ completed[1].extract = "ocr_error"
    /\ completed[1].response = [status |-> 200, is_success |-> TRUE, data |-> <<>>]

---------------------------------------------------------------------------
(* C9: a record reaching format_output without one of the five fields      *)
(* makes it fail with a missing-field error (no default, no partial        *)
(* object), and the failure is not masked.                                 *)

Lacking(parsed_data) ==
    {k \in 1..Len(parsed_data) : DOMAIN parsed_data[k] # FieldNames}

\* the key the first deficient record lacks first, in FieldOrder
FirstMissingKey(parsed_data) ==
    FieldOrder[Min({i \in 1..Len(FieldOrder) :
                      FieldOrder[i] \notin DOMAIN parsed_data[Min(Lacking(parsed_data))]})]

---------------------------------------------------------------------------
(* C10: every POST /get-lab-tests request ends with exactly one structured *)
(* response, success with the data or failure with the error, and no       *)
(* exception leaves the handler.                                           *)

\* C10 as stated: a failure inside extraction is a failure response too
C10_ExtractionFailureAnswered500 ==
    \A i \in 1..Len(completed) :
        IF completed[i].error # NoError \/ completed[i].extract \in ExtractFailures
        THEN completed[i].response =
               [status |-> 500, is_success |-> FALSE, error |-> completed[i].error.msg]
        ELSE completed[i].response =
               [status |-> 200, is_success |-> TRUE, data |-> completed[i].parsed_data]

\* C10 as amended: one response per finished request; 500 with the error
\* exactly when an exception reached the handler's except clause, 200 with
\* the data otherwise, which includes the images extraction failed on
C10_OneStructuredResponse ==
    /\ Len(completed) = (IF spc = "idle" THEN nreq ELSE nreq - 1)
    /\ \A i \in 1..Len(completed) :
         /\ completed[i].id = i
         /\ IF completed[i].error # NoError
            THEN completed[i].response =
                   [status |-> 500, is_success |-> FALSE,
                    error |-> completed[i].error.msg]
            ELSE completed[i].response =
                   [status |-> 200, is_success |-> TRUE,
                    data |-> completed[i].parsed_data]
    /\ (spc = "idle" /\ nreq > 0) => response = completed[nreq].response

C10_Witness ==
    /\ Len(completed) = 2
    /\ completed[1].response =
         [status |-> 500, is_success |-> FALSE, error |-> "copy_fails"]
    /\ completed[2].extract = "unreadable"
    /\ completed[2].response = [status |-> 200, is_success |-> TRUE, data |-> <<>>]

=============================================================================
